---------------------------- MODULE Spec2Model ----------------------------
(***************************************************************************)
(* Model of the SMC protocol client of mactop (src/internal/app/smc.c,     *)
(* src/smc.h): the request/response frame SMCKeyData_t, the exchange       *)
(* primitive SMCCall, the two-phase read SMCReadKey, the lenient decoders  *)
(* SMCGetFloatValue and SMCGetKeyCount, and the one-phase operations       *)
(* SMCGetKeyFromIndex and SMCGetKeyInfo, and SMCOpen and SMCClose.         *)
(* Spec is one client thread making one call after another; SpecThreads    *)
(* is two threads with a handle each; SpecCopies runs src/smc.c and        *)
(* src/internal/app/smc.c side by side.                                    *)
(*                                                                         *)
(* Representation.  A 32-bit object (unsigned int, int, kern_return_t      *)
(* excepted) is the tuple of its four bytes, most significant first, so    *)
(* that shifts, ORs and sign extension are computed on the bit pattern at  *)
(* full width.  The number a pattern stands for is given as the pair       *)
(* <<hi, lo>> meaning hi * 65536 + lo with lo in 0..65535.                 *)
(* A char is the byte 0..255 that is stored; its promotion to int depends  *)
(* on the signedness of char in the build (variable charSigned).           *)
(***************************************************************************)
EXTENDS Integers, Sequences, FiniteSets, TLC

VARIABLES
    charSigned,       \* the build: is plain char a signed type
    pc,               \* position of the client thread
    op,               \* the API function being executed
    key,              \* argument key (4 stored chars) of the call
    index,            \* argument index of SMCGetKeyFromIndex
    inputStructure,   \* local request frame
    outputStructure,  \* local response frame
    val,              \* the SMCKeyData_t record the read fills
    f,                \* local float of SMCGetFloatValue (bit pattern)
    outputKey,        \* caller's char[5] of SMCGetKeyFromIndex
    keyInfo,          \* caller's SMCKeyData_keyInfo_t of SMCGetKeyInfo
    calls,            \* exchanges issued by the call in progress
    ret,              \* what the call returned
    earlier,          \* outcome of the read that returned before this call
    iterator,         \* local io_iterator_t of SMCOpen
    device,           \* local io_object_t of SMCOpen
    conn,             \* local conn of SMCOpen, argument conn of SMCClose
    osLog,            \* IOKit calls made by the SMCOpen/SMCClose in progress
    thread,           \* two threads, each with its own handle: their locals
    frames,           \* the SMCKeyData_t records of the threads, by location
    order,            \* the threads' exchanges in the order they happened
    copyRun           \* the two copies of smc.c run side by side

(* the variables of SMCOpen and SMCClose *)
openVars == <<iterator, device, conn, osLog>>

(* the variables of the one client thread *)
clientVars == <<pc, op, key, index, inputStructure, outputStructure, val, f,
                outputKey, keyInfo, calls, ret, earlier, openVars>>

(* the variables of the two threads *)
threadVars == <<thread, frames, order>>

(* what the one client thread leaves alone *)
sideVars == <<threadVars, copyRun>>

vars == <<charSigned, clientVars, threadVars, copyRun>>

----------------------------------------------------------------------------
(* smc.h: command index and command selectors *)
KERNEL_INDEX_SMC == 2
SMC_CMD_READ_BYTES == 5
SMC_CMD_READ_INDEX == 8
SMC_CMD_READ_KEYINFO == 9

(* IOKit's success status, the value every result is compared with *)
kIOReturnSuccess == 0

(* the literal SMCGetFloatValue compares dataType with: 'f','l','t',' ' *)
FloatTypeTag == 1718383648

----------------------------------------------------------------------------
(* Bytes and 32-bit words *)
Byte == 0..255

RECURSIVE OrBits(_, _, _)
OrBits(a, b, n) ==
    IF n = 0 THEN 0
    ELSE (IF a % 2 = 1 \/ b % 2 = 1 THEN 1 ELSE 0)
         + 2 * OrBits(a \div 2, b \div 2, n - 1)

(* the C operator | on two 32-bit operands *)
WordOr(x, y) == [i \in 1..4 |-> OrBits(x[i], y[i], 8)]

(* the C operator << by 8*n bits on a 32-bit operand: the bits shifted out *)
(* are dropped (the shift instruction of the target; for a negative or     *)
(* overflowing int operand the C standard leaves the result undefined and  *)
(* the target's compilers emit this shift)                                 *)
ShiftLeftBytes(w, n) == [i \in 1..4 |-> IF i + n <= 4 THEN w[i + n] ELSE 0]

(* the C expression (w >> 8*n) & 0xFF on an unsigned 32-bit operand *)
ShiftRightByte(w, n) == w[4 - n]

(* integer promotion of a plain char holding byte c *)
PromoteChar(c, signed) ==
    IF signed /\ c >= 128 THEN <<255, 255, 255, c>> ELSE <<0, 0, 0, c>>

(* integer promotion of (unsigned char)c *)
PromoteUChar(c) == <<0, 0, 0, c>>

ZeroWord == <<0, 0, 0, 0>>

(* the word of a non-negative int literal below 2^31 *)
WordOfNat(n) ==
    <<n \div 16777216, (n \div 65536) % 256, (n \div 256) % 256, n % 256>>

(* conversion of an int to unsigned int / 32-bit storage: two's complement *)
IntToWord(i) ==
    IF i >= 0 THEN WordOfNat(i)
    ELSE LET j == i + 2147483647 + 1   \* i + 2^31, in 0..2^31-1
             w == WordOfNat(j)
         IN  <<w[1] + 128, w[2], w[3], w[4]>>

(* the number an unsigned int holds, as <<hi, lo>> = hi * 65536 + lo *)
UnsignedValue(w) == <<w[1] * 256 + w[2], w[3] * 256 + w[4]>>

(* the number an int holds (two's complement), as <<hi, lo>> *)
SignedValue(w) ==
    <<w[1] * 256 + w[2] - (IF w[1] >= 128 THEN 65536 ELSE 0),
      w[3] * 256 + w[4]>>


----------------------------------------------------------------------------
(* smc.h: the frame SMCKeyData_t and its parts *)
ZeroVers == [major |-> 0, minor |-> 0, build |-> 0, reserved |-> 0,
             release |-> 0]

ZeroPLimitData == [version |-> 0, length |-> 0, cpuPLimit |-> ZeroWord,
                   gpuPLimit |-> ZeroWord, memPLimit |-> ZeroWord]

ZeroKeyInfo == [dataSize |-> ZeroWord, dataType |-> ZeroWord,
                dataAttributes |-> 0]

BytesLen == 32

ZeroBytes == [i \in 1..BytesLen |-> 0]

(* the SMCKeyData_t with every field zero *)
ZeroFrame ==
    [key |-> ZeroWord, vers |-> ZeroVers, pLimitData |-> ZeroPLimitData,
     keyInfo |-> ZeroKeyInfo, result |-> 0, status |-> 0, data8 |-> 0,
     data32 |-> ZeroWord, bytes |-> ZeroBytes]

(* a record left as it was found *)
Memset0_Kept(s) == s

(* memset(&s, 0, sizeof(SMCKeyData_t)) on a record holding s *)
Memset0(s) == ZeroFrame

----------------------------------------------------------------------------
(* Key packing and unpacking *)

(* (key[0] << 24) | (key[1] << 16) | (key[2] << 8) | key[3], key a char* *)
PackKey(k, signed) ==
    WordOr(WordOr(WordOr(ShiftLeftBytes(PromoteChar(k[1], signed), 3),
                         ShiftLeftBytes(PromoteChar(k[2], signed), 2)),
                  ShiftLeftBytes(PromoteChar(k[3], signed), 1)),
           PromoteChar(k[4], signed))

(* outputKey[0..3] = (key >> 24, 16, 8, 0) & 0xFF; outputKey[4] = '\0' *)
UnpackKey(w) ==
    <<ShiftRightByte(w, 3), ShiftRightByte(w, 2), ShiftRightByte(w, 1),
      ShiftRightByte(w, 0), 0>>

----------------------------------------------------------------------------
(* SMCReadKey, between its exchanges *)

(* the request of exchange #1, made in the local u *)
ReadKeyRequest1(u, k, signed) ==
    [Memset0(u) EXCEPT !.key = PackKey(k, signed),
                       !.data8 = SMC_CMD_READ_KEYINFO]

(* a val that is not cleared *)
ReadKeyValInit_Kept(v) == v

(* val as SMCReadKey enters: memset(val, 0, sizeof(SMCKeyData_t)) *)
ReadKeyValInit(v) == Memset0(v)

(* val after exchange #1 succeeded with response out *)
ReadKeyValAfter1(v, out) ==
    [v EXCEPT !.keyInfo.dataSize = out.keyInfo.dataSize,
              !.keyInfo.dataType = out.keyInfo.dataType]

(* a request #2 that does not pass the size on *)
ReadKeyRequest2_Unsized(in, v) == [in EXCEPT !.data8 = SMC_CMD_READ_BYTES]

(* the request of exchange #2, made from request #1 and the new val *)
ReadKeyRequest2(in, v) ==
    [in EXCEPT !.keyInfo.dataSize = v.keyInfo.dataSize,
               !.data8 = SMC_CMD_READ_BYTES]

(* a copy of only the bytes the float decoder needs *)
ReadKeyValAfter2_Sized(v, out) ==
    [v EXCEPT !.bytes = [i \in 1..BytesLen |->
                            IF i <= 4 THEN out.bytes[i] ELSE v.bytes[i]]]

(* val after exchange #2 succeeded with response out *)
ReadKeyValAfter2(v, out) == [v EXCEPT !.bytes = out.bytes]

----------------------------------------------------------------------------
(* float and double.  A float is its 32-bit pattern; a double is its sign, *)
(* its 11-bit exponent field and its 52-bit fraction as the top 23 bits    *)
(* (hi) and the low 29 bits (lo).                                          *)
DoubleZero == [sign |-> 0, exp |-> 0, hi |-> 0, lo |-> 0]

RECURSIVE Pow2(_)
Pow2(n) == IF n = 0 THEN 1 ELSE 2 * Pow2(n - 1)

RECURSIVE TopBit(_)
TopBit(m) == IF m <= 1 THEN 0 ELSE 1 + TopBit(m \div 2)

FloatSign(w) == w[1] \div 128
FloatExp(w) == (w[1] % 128) * 2 + w[2] \div 128
FloatFrac(w) == (w[2] % 128) * 65536 + w[3] * 256 + w[4]

(* a decoder that assembles the float most significant byte first *)
FloatFromBytes_BigEndian(b) == <<b[1], b[2], b[3], b[4]>>

(* memcpy(&f, val.bytes, 4) on the little-endian target *)
FloatFromBytes(b) == <<b[4], b[3], b[2], b[1]>>

(* (double)f: the widening conversion of the target's FPU; exact for       *)
(* numbers and infinities, a NaN becomes the quiet NaN with the same        *)
(* payload                                                                  *)
FloatToDouble(w) ==
    LET s == FloatSign(w)
        e == FloatExp(w)
        m == FloatFrac(w)
    IN  IF e = 255
        THEN IF m = 0
             THEN [sign |-> s, exp |-> 2047, hi |-> 0, lo |-> 0]
             ELSE [sign |-> s, exp |-> 2047,
                   hi |-> IF m >= 4194304 THEN m ELSE m + 4194304,
                   lo |-> 0]
        ELSE IF e = 0
        THEN IF m = 0
             THEN [sign |-> s, exp |-> 0, hi |-> 0, lo |-> 0]
             ELSE LET p == TopBit(m)
                  IN  [sign |-> s, exp |-> 874 + p,
                       hi |-> (m - Pow2(p)) * Pow2(23 - p), lo |-> 0]
        ELSE [sign |-> s, exp |-> e + 896, hi |-> m, lo |-> 0]

----------------------------------------------------------------------------
(* What the callers of SMCReadKey return; r is SMCReadKey's result and v   *)
(* the val it filled.                                                      *)
NoFloat == <<>>

(* the local f of SMCGetFloatValue: set only in the float branch *)
GetFloatValueF(r, v) ==
    IF r = kIOReturnSuccess /\ v.keyInfo.dataType = WordOfNat(FloatTypeTag)
    THEN FloatFromBytes(v.bytes)
    ELSE NoFloat

(* a decoder that does not look at dataType *)
SMCGetFloatValueReturn_NoTypeCheck(r, v) ==
    IF r # kIOReturnSuccess
    THEN [type |-> "double", v |-> DoubleZero]
    ELSE [type |-> "double", v |-> FloatToDouble(FloatFromBytes(v.bytes))]

(* a decoder that reports what went wrong *)
SMCGetFloatValueReturn_Strict(r, v) ==
    IF r # kIOReturnSuccess
    THEN [type |-> "kern_return_t", v |-> r]
    ELSE IF v.keyInfo.dataType = WordOfNat(FloatTypeTag)
         THEN [type |-> "double", v |-> FloatToDouble(FloatFromBytes(v.bytes))]
         ELSE [type |-> "TypeMismatch", v |-> DoubleZero]

SMCGetFloatValueReturn(r, v) ==
    IF r # kIOReturnSuccess
    THEN [type |-> "double", v |-> DoubleZero]
    ELSE IF v.keyInfo.dataType = WordOfNat(FloatTypeTag)
         THEN [type |-> "double", v |-> FloatToDouble(FloatFromBytes(v.bytes))]
         ELSE [type |-> "double", v |-> DoubleZero]

(* count = (uchar)bytes[0] << 24 | ... | (uchar)bytes[3], an unsigned int *)
KeyCountOf(b) ==
    WordOr(WordOr(WordOr(ShiftLeftBytes(PromoteUChar(b[1]), 3),
                         ShiftLeftBytes(PromoteUChar(b[2]), 2)),
                  ShiftLeftBytes(PromoteUChar(b[3]), 1)),
           PromoteUChar(b[4]))

(* SMCGetKeyCount returns int: 0 on failure, else count converted to int   *)
(* (the pattern is kept, the value is read as two's complement)            *)
SMCGetKeyCountReturn(r, v) ==
    IF r # kIOReturnSuccess
    THEN [type |-> "int", v |-> SignedValue(IntToWord(0))]
    ELSE [type |-> "int", v |-> SignedValue(KeyCountOf(v.bytes))]

(* a read that maps every failure to one error code *)
SMCReadKeyReturn_Mapped(r) ==
    [type |-> "kern_return_t",
     v |-> IF r = kIOReturnSuccess THEN kIOReturnSuccess ELSE -536870212]

SMCReadKeyReturn(r) == [type |-> "kern_return_t", v |-> r]

(* the return of the API function o once its SMCReadKey returned r *)
ReturnAfterReadKey(o, r, v) ==
    CASE o = "SMCReadKey" -> SMCReadKeyReturn(r)
      [] o = "SMCGetFloatValue" -> SMCGetFloatValueReturn(r, v)
      [] o = "SMCGetKeyCount" -> SMCGetKeyCountReturn(r, v)

FAfterReadKey(o, r, v) ==
    IF o = "SMCGetFloatValue" THEN GetFloatValueF(r, v) ELSE NoFloat

----------------------------------------------------------------------------
(* Inputs of the model: the arguments callers pass, what memory holds      *)
(* before the program writes it, and the answers the controller gives.     *)
MaxIndex == 2
MaxTail == 1

KeyCountKey == <<35, 75, 69, 89>>        \* "#KEY"

Keys == {<<84, 67, 48, 80>>,             \* "TC0P"
         <<65, 65, 65, 128>>,            \* last char above 0x7F
         <<65, 128, 65, 65>>,            \* second char above 0x7F
         <<0, 0, 0, 0>>}

Indexes == {-1} \cup 0..MaxIndex

FailStatuses == {-536870212, -536870206}  \* kIOReturnError, kIOReturnBadArgument
Statuses == {kIOReturnSuccess} \cup FailStatuses

FloatTagWord == <<102, 108, 116, 32>>    \* 'f','l','t',' '
KeyInfos ==
    {[dataSize |-> WordOfNat(4), dataType |-> FloatTagWord,
      dataAttributes |-> 0],
     [dataSize |-> WordOfNat(4), dataType |-> <<117, 105, 51, 50>>,
      dataAttributes |-> 0],
     [dataSize |-> WordOfNat(2), dataType |-> FloatTagWord,
      dataAttributes |-> 128],
     [dataSize |-> WordOfNat(33), dataType |-> <<102, 108, 116, 0>>,
      dataAttributes |-> 1]}

PayloadHeads ==
    {<<0, 0, 0, 42>>,        \* count 42
     <<0, 0, 40, 66>>,       \* float 42.0
     <<128, 0, 0, 0>>,       \* count 2^31; a subnormal float
     <<1, 0, 128, 255>>,     \* a signalling NaN
     <<255, 255, 255, 255>>} \* count 2^32 - 1; a quiet NaN

(* a 32-byte payload: its first four bytes and the fill of the other 28 *)
Payload(h, t) == [i \in 1..BytesLen |-> IF i <= 4 THEN h[i] ELSE t * 85]

(* the key of a response and the fields this client never reads; the      *)
(* variants go with the fill of the payload                                *)
ResponseRest(t) ==
    IF t % 2 = 0
    THEN [key |-> KeyCountKey, vers |-> ZeroVers,
          pLimitData |-> ZeroPLimitData,
          result |-> 0, status |-> 0, data8 |-> 0, data32 |-> ZeroWord]
    ELSE [key |-> <<255, 128, 65, 7>>,
          vers |-> [major |-> 1, minor |-> 2, build |-> 3, reserved |-> 4,
                    release |-> 5],
          pLimitData |-> [version |-> 1, length |-> 2,
                          cpuPLimit |-> WordOfNat(3),
                          gpuPLimit |-> WordOfNat(4),
                          memPLimit |-> WordOfNat(5)],
          result |-> 132, status |-> 1, data8 |-> 7, data32 |-> WordOfNat(9)]

Response(ki, h, t) ==
    LET o == ResponseRest(t)
    IN  [key |-> o.key, vers |-> o.vers, pLimitData |-> o.pLimitData,
         keyInfo |-> ki, result |-> o.result, status |-> o.status,
         data8 |-> o.data8, data32 |-> o.data32, bytes |-> Payload(h, t)]

Responses ==
    {Response(ki, h, t) : ki \in KeyInfos, h \in PayloadHeads, t \in 0..MaxTail}

(* what a record holds before the call writes it: stack contents, or the   *)
(* result of an earlier read                                               *)
JunkFrame ==
    [key |-> <<222, 173, 190, 239>>,
     vers |-> [major |-> 9, minor |-> 9, build |-> 9, reserved |-> 9,
               release |-> 9],
     pLimitData |-> [version |-> 9, length |-> 9, cpuPLimit |-> WordOfNat(9),
                     gpuPLimit |-> WordOfNat(9), memPLimit |-> WordOfNat(9)],
     keyInfo |-> [dataSize |-> WordOfNat(4), dataType |-> FloatTagWord,
                  dataAttributes |-> 9],
     result |-> 9, status |-> 9, data8 |-> 9, data32 |-> WordOfNat(9),
     bytes |-> [i \in 1..BytesLen |-> 9]]

Uninitialized == {ZeroFrame, JunkFrame}

NoKey == <<0, 0, 0, 0, 0>>
CallerKeyBuffers == {<<88, 88, 88, 88, 88>>, <<35, 75, 69, 89, 0>>}
CallerKeyInfos == {ZeroKeyInfo, JunkFrame.keyInfo}

NoReturn == [type |-> "none", v |-> 0]

(* smc.h, function prototypes: the functions of the API that decode a      *)
(* float                                                                   *)
FloatDecoders == {"SMCGetFloatValue"}

----------------------------------------------------------------------------
(* SMCCall: one exchange through IOConnectCallStructMethod.  The kernel    *)
(* answers with a status and, on success, fills the whole output           *)
(* structure; on failure the output is left alone or written.              *)
KernelOutput(st, resp, written, out) ==
    IF st = kIOReturnSuccess \/ written THEN resp ELSE out

(* the record of one exchange: what was sent, the status returned and the  *)
(* output structure as the call left it                                    *)
SMCCall(idx, in, st, out) ==
    [index |-> idx, input |-> in, status |-> st, output |-> out]

(* a read that goes on after a failed exchange *)
Failed_Ignored(result) == FALSE

(* if (result != kIOReturnSuccess) return result; *)
Failed(result) == result # kIOReturnSuccess

----------------------------------------------------------------------------
(* Two threads, each using its own handle.  The records of thread t are    *)
(* automatic variables of its SMCReadKey / SMCGetKeyFromIndex and the      *)
(* record its caller passes: each has a location of its own.               *)
Threads == {1, 2}

InputOf(t) == <<t, "inputStructure">>

(* one static response frame for all threads *)
OutputOf_Static(t) == <<0, "outputStructure">>

OutputOf(t) == <<t, "outputStructure">>

ValOf(t) == <<t, "val">>

FrameLocs == UNION {{InputOf(t), OutputOf(t), ValOf(t)} : t \in Threads}

(* a thread that is not in a call; c is its handle *)
IdleThread(c) ==
    [pc |-> "idle", conn |-> c, op |-> "none", key |-> <<0, 0, 0, 0>>,
     index |-> 0, result |-> 0, outputKey |-> <<0, 0, 0, 0, 0>>,
     calls |-> <<>>, handles |-> <<>>, ret |-> [type |-> "none", v |-> 0]]

ThreadsParked ==
    /\ thread = [t \in Threads |-> IdleThread(0)]
    /\ frames = [l \in FrameLocs |-> ZeroFrame]
    /\ order = <<>>

(* The two copies of the client: the one of the application and the one    *)
(* at the root of src.                                                     *)
AppCopy == "src/internal/app/smc.c"
RootCopy == "src/smc.c"
Copies == {AppCopy, RootCopy}

(* a copy that is not in a call *)
IdleRun ==
    [pc |-> "idle", op |-> "none", key |-> <<0, 0, 0, 0>>,
     inputStructure |-> ZeroFrame, outputStructure |-> ZeroFrame,
     val |-> ZeroFrame, calls |-> <<>>,
     iterator |-> 0, device |-> 0, conn |-> 0, osLog |-> <<>>,
     ret |-> [type |-> "none", v |-> 0]]

CopiesParked == copyRun = [c \in Copies |-> IdleRun]

----------------------------------------------------------------------------
(* The client thread.  A call starts (pc = "idle") from its arguments and  *)
(* from arbitrary contents of the records it is given; the records of the  *)
(* other operations are out of scope (zero).  When it has returned         *)
(* (pc = "returned") the variables show what it left behind.               *)
ClientIdle ==
    /\ pc = "idle"
    /\ op = "none"
    /\ key = <<0, 0, 0, 0>>
    /\ index = 0
    /\ inputStructure = ZeroFrame
    /\ outputStructure = ZeroFrame
    /\ val = ZeroFrame
    /\ f = NoFloat
    /\ outputKey = NoKey
    /\ keyInfo = ZeroKeyInfo
    /\ calls = <<>>
    /\ ret = NoReturn
    /\ earlier = "none"
    /\ iterator = 0
    /\ device = 0
    /\ conn = 0
    /\ osLog = <<>>

Init ==
    /\ charSigned \in BOOLEAN
    /\ ClientIdle
    /\ ThreadsParked
    /\ CopiesParked

(* entry of SMCReadKey up to its first SMCCall (lines 58-63) *)
EnterReadKey(o, k) ==
    /\ pc = "idle"
    /\ op' = o
    /\ key' = k
    /\ \E uin \in Uninitialized, uout \in Uninitialized,
          v \in Uninitialized \cup {val} :
         /\ inputStructure' = ReadKeyRequest1(uin, k, charSigned)
         /\ outputStructure' = Memset0(uout)
         /\ val' = ReadKeyValInit(v)
    /\ index' = 0
    /\ f' = NoFloat
    /\ outputKey' = NoKey
    /\ keyInfo' = ZeroKeyInfo
    /\ calls' = <<>>
    /\ ret' = NoReturn
    /\ pc' = "ReadKey_call1"
    /\ UNCHANGED <<sideVars, charSigned, earlier, openVars>>

Begin_SMCReadKey == \E k \in Keys : EnterReadKey("SMCReadKey", k)

Begin_SMCGetFloatValue ==
    \E k \in Keys : EnterReadKey("SMCGetFloatValue", k)

Begin_SMCGetKeyCount == EnterReadKey("SMCGetKeyCount", KeyCountKey)

(* exchange #1 of SMCReadKey and what follows it up to the next SMCCall or *)
(* to the return of the API function                                       *)
ReadKey_Call1 ==
    /\ pc = "ReadKey_call1"
    /\ \E st \in Statuses, resp \in Responses, written \in BOOLEAN :
         /\ st = kIOReturnSuccess => written
         /\ outputStructure' = KernelOutput(st, resp, written, outputStructure)
         /\ calls' = Append(calls, SMCCall(KERNEL_INDEX_SMC, inputStructure, st,
                                           outputStructure'))
         /\ IF Failed(st)
            THEN /\ ret' = ReturnAfterReadKey(op, st, val)
                 /\ f' = FAfterReadKey(op, st, val)
                 /\ pc' = "returned"
                 /\ UNCHANGED <<val, inputStructure>>
            ELSE /\ val' = ReadKeyValAfter1(val, outputStructure')
                 /\ inputStructure' = ReadKeyRequest2(inputStructure, val')
                 /\ pc' = "ReadKey_call2"
                 /\ UNCHANGED <<ret, f>>
    /\ UNCHANGED <<sideVars, charSigned, earlier,
                   openVars, op, key, index, outputKey, keyInfo>>

(* exchange #2 of SMCReadKey and what follows it up to the return of the   *)
(* API function                                                            *)
ReadKey_Call2 ==
    /\ pc = "ReadKey_call2"
    /\ \E st \in Statuses, resp \in Responses, written \in BOOLEAN :
         /\ st = kIOReturnSuccess => written
         /\ outputStructure' = KernelOutput(st, resp, written, outputStructure)
         /\ calls' = Append(calls, SMCCall(KERNEL_INDEX_SMC, inputStructure, st,
                                           outputStructure'))
         /\ val' = IF Failed(st) THEN val
                   ELSE ReadKeyValAfter2(val, outputStructure')
         /\ ret' = ReturnAfterReadKey(op, st, val')
         /\ f' = FAfterReadKey(op, st, val')
         /\ pc' = "returned"
    /\ UNCHANGED <<sideVars, charSigned, earlier,
                   openVars, op, key, index, inputStructure, outputKey,
                   keyInfo>>

----------------------------------------------------------------------------
(* SMCGetKeyFromIndex *)

(* a request that carries the index in the key field *)
KeyFromIndexRequest_InKey(u, i) ==
    [Memset0(u) EXCEPT !.data8 = SMC_CMD_READ_INDEX, !.key = IntToWord(i)]

(* the request: data8 = SMC_CMD_READ_INDEX, data32 = index *)
KeyFromIndexRequest(u, i) ==
    [Memset0(u) EXCEPT !.data8 = SMC_CMD_READ_INDEX,
                       !.data32 = IntToWord(i)]

(* an output key written whatever the exchange reported *)
KeyFromIndexOutput_Always(result, old, out) == UnpackKey(out.key)

(* lines 129-138: outputKey as the call leaves it *)
KeyFromIndexOutput(result, old, out) ==
    IF Failed(result) THEN old ELSE UnpackKey(out.key)

Begin_SMCGetKeyFromIndex ==
    /\ pc = "idle"
    /\ \E i \in Indexes, uin \in Uninitialized, uout \in Uninitialized :
         /\ index' = i
         /\ inputStructure' = KeyFromIndexRequest(uin, i)
         /\ outputStructure' = Memset0(uout)
    /\ outputKey' \in CallerKeyBuffers
    /\ op' = "SMCGetKeyFromIndex"
    /\ key' = <<0, 0, 0, 0>>
    /\ val' = ZeroFrame
    /\ f' = NoFloat
    /\ keyInfo' = ZeroKeyInfo
    /\ calls' = <<>>
    /\ ret' = NoReturn
    /\ pc' = "KeyFromIndex_call"
    /\ UNCHANGED <<sideVars, charSigned, earlier, openVars>>

KeyFromIndex_Call ==
    /\ pc = "KeyFromIndex_call"
    /\ \E st \in Statuses, resp \in Responses, written \in BOOLEAN :
         /\ st = kIOReturnSuccess => written
         /\ outputStructure' = KernelOutput(st, resp, written, outputStructure)
         /\ calls' = Append(calls, SMCCall(KERNEL_INDEX_SMC, inputStructure, st,
                                           outputStructure'))
         /\ outputKey' = KeyFromIndexOutput(st, outputKey, outputStructure')
         /\ ret' = [type |-> "kern_return_t", v |-> st]
         /\ pc' = "returned"
    /\ UNCHANGED <<sideVars, charSigned, earlier,
                   openVars, op, key, index, inputStructure, val, f,
                   keyInfo>>

----------------------------------------------------------------------------
(* SMCGetKeyInfo *)

KeyInfoRequest(u, k, signed) ==
    [Memset0(u) EXCEPT !.key = PackKey(k, signed),
                       !.data8 = SMC_CMD_READ_KEYINFO]

(* lines 156-160: *keyInfo as the call leaves it *)
KeyInfoOutput(result, old, out) ==
    IF Failed(result) THEN old ELSE out.keyInfo

Begin_SMCGetKeyInfo ==
    /\ pc = "idle"
    /\ \E k \in Keys, uin \in Uninitialized, uout \in Uninitialized :
         /\ key' = k
         /\ inputStructure' = KeyInfoRequest(uin, k, charSigned)
         /\ outputStructure' = Memset0(uout)
    /\ keyInfo' \in CallerKeyInfos
    /\ op' = "SMCGetKeyInfo"
    /\ index' = 0
    /\ val' = ZeroFrame
    /\ f' = NoFloat
    /\ outputKey' = NoKey
    /\ calls' = <<>>
    /\ ret' = NoReturn
    /\ pc' = "KeyInfo_call"
    /\ UNCHANGED <<sideVars, charSigned, earlier, openVars>>

KeyInfo_Call ==
    /\ pc = "KeyInfo_call"
    /\ \E st \in Statuses, resp \in Responses, written \in BOOLEAN :
         /\ st = kIOReturnSuccess => written
         /\ outputStructure' = KernelOutput(st, resp, written, outputStructure)
         /\ calls' = Append(calls, SMCCall(KERNEL_INDEX_SMC, inputStructure, st,
                                           outputStructure'))
         /\ keyInfo' = KeyInfoOutput(st, keyInfo, outputStructure')
         /\ ret' = [type |-> "kern_return_t", v |-> st]
         /\ pc' = "returned"
    /\ UNCHANGED <<sideVars, charSigned, earlier,
                   openVars, op, key, index, inputStructure, val, f,
                   outputKey>>

----------------------------------------------------------------------------
(* SMCOpen and SMCClose.  An IOKit object is known by its name, a number;  *)
(* 0 is the null name.                                                     *)
Iterators == {11, 12}
Devices == {21, 22}
Connections == {31, 32}

(* what the locals iterator and device hold before they are assigned *)
UninitializedNames == {0, 99}

NoName == [type |-> "io_connect_t", v |-> 0]

(* one IOKit call: the function, the object passed, the status returned    *)
(* and the object produced (0 where the function has none)                 *)
IOKitCall(fn, arg, result, object) ==
    [fn |-> fn, arg |-> arg, result |-> result, object |-> object]

IOObjectRelease(object) == IOKitCall("IOObjectRelease", object, 0, 0)

(* a device that is never released *)
AfterServiceOpen_None(dev) == <<>>

(* line 27, between IOServiceOpen and the test of its result *)
AfterServiceOpen(dev) == <<IOObjectRelease(dev)>>

(* an open that returns conn whatever IOServiceOpen reported *)
SMCOpenReturn_Conn(result, c) == c

(* lines 29-33 *)
SMCOpenReturn(result, c) == IF Failed(result) THEN 0 ELSE c

(* lines 7-12: the locals, conn = 0 *)
Begin_SMCOpen ==
    /\ pc = "idle"
    /\ op' = "SMCOpen"
    /\ iterator' \in UninitializedNames
    /\ device' \in UninitializedNames
    /\ conn' = 0
    /\ osLog' = <<>>
    /\ key' = <<0, 0, 0, 0>>
    /\ index' = 0
    /\ inputStructure' = ZeroFrame
    /\ outputStructure' = ZeroFrame
    /\ val' = ZeroFrame
    /\ f' = NoFloat
    /\ outputKey' = NoKey
    /\ keyInfo' = ZeroKeyInfo
    /\ calls' = <<>>
    /\ ret' = NoReturn
    /\ pc' = "Open_lookup"
    /\ UNCHANGED <<sideVars, charSigned, earlier>>

(* lines 13-17: IOServiceGetMatchingServices; on failure the iterator is   *)
(* left alone or nulled                                                    *)
Open_Lookup ==
    /\ pc = "Open_lookup"
    /\ \E st \in Statuses, it \in Iterators, written \in BOOLEAN :
         /\ st = kIOReturnSuccess => written
         /\ iterator' = IF st = kIOReturnSuccess THEN it
                        ELSE IF written THEN 0 ELSE iterator
         /\ osLog' = Append(osLog,
                            IOKitCall("IOServiceGetMatchingServices", 0, st,
                                      IF st = kIOReturnSuccess THEN it ELSE 0))
         /\ IF Failed(st)
            THEN /\ ret' = NoName
                 /\ pc' = "returned"
            ELSE /\ pc' = "Open_next"
                 /\ UNCHANGED ret
    /\ UNCHANGED <<sideVars, charSigned, earlier,
                   op, key, index, inputStructure,
                   outputStructure, val, f, outputKey, keyInfo, calls,
                   device, conn>>

(* lines 19-24: IOIteratorNext, the release of the iterator *)
Open_Next ==
    /\ pc = "Open_next"
    /\ \E dev \in {0} \cup Devices :
         /\ device' = dev
         /\ osLog' = osLog \o <<IOKitCall("IOIteratorNext", iterator, 0, dev),
                                IOObjectRelease(iterator)>>
         /\ IF dev = 0
            THEN /\ ret' = NoName
                 /\ pc' = "returned"
            ELSE /\ pc' = "Open_connect"
                 /\ UNCHANGED ret
    /\ UNCHANGED <<sideVars, charSigned, earlier,
                   op, key, index, inputStructure,
                   outputStructure, val, f, outputKey, keyInfo, calls,
                   iterator, conn>>

(* lines 26-33: IOServiceOpen, the release of the device; on failure conn  *)
(* is left alone or written                                                *)
Open_Connect ==
    /\ pc = "Open_connect"
    /\ \E st \in Statuses, c \in Connections, written \in BOOLEAN :
         /\ st = kIOReturnSuccess => written
         /\ conn' = IF written THEN c ELSE conn
         /\ osLog' = osLog
                     \o <<IOKitCall("IOServiceOpen", device, st,
                                    IF st = kIOReturnSuccess THEN c ELSE 0)>>
                     \o AfterServiceOpen(device)
         /\ ret' = [type |-> "io_connect_t", v |-> SMCOpenReturn(st, conn')]
         /\ pc' = "returned"
    /\ UNCHANGED <<sideVars, charSigned, earlier,
                   op, key, index, inputStructure,
                   outputStructure, val, f, outputKey, keyInfo, calls,
                   iterator, device>>

(* SMCClose, line 36 *)
Begin_SMCClose ==
    /\ pc = "idle"
    /\ op' = "SMCClose"
    /\ conn' \in {0} \cup Connections
    /\ iterator' = 0
    /\ device' = 0
    /\ osLog' = <<>>
    /\ key' = <<0, 0, 0, 0>>
    /\ index' = 0
    /\ inputStructure' = ZeroFrame
    /\ outputStructure' = ZeroFrame
    /\ val' = ZeroFrame
    /\ f' = NoFloat
    /\ outputKey' = NoKey
    /\ keyInfo' = ZeroKeyInfo
    /\ calls' = <<>>
    /\ ret' = NoReturn
    /\ pc' = "Close_call"
    /\ UNCHANGED <<sideVars, charSigned, earlier>>

Close_Call ==
    /\ pc = "Close_call"
    /\ \E st \in Statuses :
         /\ osLog' = Append(osLog, IOKitCall("IOServiceClose", conn, st, 0))
         /\ ret' = [type |-> "kern_return_t", v |-> st]
    /\ pc' = "returned"
    /\ UNCHANGED <<sideVars, charSigned, earlier,
                   op, key, index, inputStructure,
                   outputStructure, val, f, outputKey, keyInfo, calls,
                   iterator, device, conn>>

----------------------------------------------------------------------------
(* The call has returned and its caller goes on: the locals of the call    *)
(* are gone, the thread is where it was before the call.  The caller       *)
(* still has the record a read filled, and may pass it to its next read.   *)
CallerContinues ==
    /\ pc = "returned"
    /\ pc' = "idle"
    /\ earlier' = IF op \notin {"SMCReadKey", "SMCGetFloatValue",
                                 "SMCGetKeyCount"} THEN "none"
                  ELSE IF \E i \in 1..Len(calls) :
                              calls[i].status # kIOReturnSuccess
                       THEN "failed" ELSE "succeeded"
    /\ op' = "none"
    /\ key' = <<0, 0, 0, 0>>
    /\ index' = 0
    /\ inputStructure' = ZeroFrame
    /\ outputStructure' = ZeroFrame
    /\ UNCHANGED val
    /\ f' = NoFloat
    /\ outputKey' = NoKey
    /\ keyInfo' = ZeroKeyInfo
    /\ calls' = <<>>
    /\ ret' = NoReturn
    /\ iterator' = 0
    /\ device' = 0
    /\ conn' = 0
    /\ osLog' = <<>>
    /\ UNCHANGED <<sideVars, charSigned>>

----------------------------------------------------------------------------
Next ==
    \/ Begin_SMCReadKey
    \/ Begin_SMCGetFloatValue
    \/ Begin_SMCGetKeyCount
    \/ ReadKey_Call1
    \/ ReadKey_Call2
    \/ Begin_SMCGetKeyFromIndex
    \/ KeyFromIndex_Call
    \/ Begin_SMCGetKeyInfo
    \/ KeyInfo_Call
    \/ Begin_SMCOpen
    \/ Open_Lookup
    \/ Open_Next
    \/ Open_Connect
    \/ Begin_SMCClose
    \/ Close_Call
    \/ CallerContinues

Spec == Init /\ [][Next]_vars

TypeOK ==
    /\ pc \in {"idle", "returned", "ReadKey_call1", "ReadKey_call2", "KeyFromIndex_call",
               "KeyInfo_call", "Open_lookup", "Open_next", "Open_connect",
               "Close_call"}
    /\ Len(calls) <= 2

----------------------------------------------------------------------------
(* The two threads.  Each statement of a call reads and writes the records *)
(* of its own thread; an exchange is one step, the statements between two  *)
(* exchanges are another, and the steps of the threads interleave.         *)
ThreadKeys == {<<84, 67, 48, 80>>, <<65, 65, 65, 128>>}
ThreadIndexes == {0, 1}
ThreadStatuses == {kIOReturnSuccess, -536870212}
ThreadResponses ==
    {Response([dataSize |-> WordOfNat(4), dataType |-> FloatTagWord,
               dataAttributes |-> 0], <<0, 0, 40, 66>>, 0),
     Response([dataSize |-> WordOfNat(2), dataType |-> <<117, 105, 51, 50>>,
               dataAttributes |-> 128], <<255, 255, 255, 255>>, 1)}

(* the handle each thread opened *)
ThreadHandle == [t \in Threads |-> 30 + t]

(* lines 58-63 in thread t *)
Thread_BeginReadKey(t) ==
    /\ thread[t].pc = "idle"
    /\ \E k \in ThreadKeys :
         /\ frames' = [frames EXCEPT
                ![InputOf(t)] = ReadKeyRequest1(frames[InputOf(t)], k,
                                                charSigned),
                ![OutputOf(t)] = Memset0(frames[OutputOf(t)]),
                ![ValOf(t)] = ReadKeyValInit(frames[ValOf(t)])]
         /\ thread' = [thread EXCEPT ![t].pc = "ReadKey_call1",
                                     ![t].op = "SMCReadKey",
                                     ![t].key = k]
    /\ UNCHANGED <<charSigned, clientVars, order, copyRun>>

(* lines 122-126 in thread t *)
Thread_BeginKeyFromIndex(t) ==
    /\ thread[t].pc = "idle"
    /\ \E i \in ThreadIndexes, kb \in {<<88, 88, 88, 88, 88>>} :
         /\ frames' = [frames EXCEPT
                ![InputOf(t)] = KeyFromIndexRequest(frames[InputOf(t)], i),
                ![OutputOf(t)] = Memset0(frames[OutputOf(t)])]
         /\ thread' = [thread EXCEPT ![t].pc = "KeyFromIndex_call",
                                     ![t].op = "SMCGetKeyFromIndex",
                                     ![t].index = i,
                                     ![t].outputKey = kb]
    /\ UNCHANGED <<charSigned, clientVars, order, copyRun>>

(* where a thread goes on when its SMCCall has returned *)
AfterCall(p) ==
    CASE p = "ReadKey_call1" -> "ReadKey_after1"
      [] p = "ReadKey_call2" -> "ReadKey_after2"
      [] p = "KeyFromIndex_call" -> "KeyFromIndex_after"

(* SMCCall in thread t: lines 65, 75, 128 *)
Thread_SMCCall(t) ==
    /\ thread[t].pc \in {"ReadKey_call1", "ReadKey_call2", "KeyFromIndex_call"}
    /\ \E st \in ThreadStatuses, resp \in ThreadResponses, written \in BOOLEAN :
         /\ st = kIOReturnSuccess => written
         /\ frames' = [frames EXCEPT
                ![OutputOf(t)] = KernelOutput(st, resp, written, @)]
         /\ thread' = [thread EXCEPT
                ![t].result = st,
                ![t].calls = Append(@, SMCCall(KERNEL_INDEX_SMC,
                                               frames[InputOf(t)], st,
                                               frames'[OutputOf(t)])),
                ![t].handles = Append(@, thread[t].conn),
                ![t].pc = AfterCall(@)]
    /\ order' = Append(order, t)
    /\ UNCHANGED <<charSigned, clientVars, copyRun>>

(* lines 66-73 in thread t *)
Thread_AfterCall1(t) ==
    /\ thread[t].pc = "ReadKey_after1"
    /\ IF Failed(thread[t].result)
       THEN /\ thread' = [thread EXCEPT
                   ![t].ret = SMCReadKeyReturn(thread[t].result),
                   ![t].pc = "returned"]
            /\ UNCHANGED frames
       ELSE /\ LET v == ReadKeyValAfter1(frames[ValOf(t)],
                                         frames[OutputOf(t)])
               IN  frames' = [frames EXCEPT
                       ![ValOf(t)] = v,
                       ![InputOf(t)] = ReadKeyRequest2(@, v)]
            /\ thread' = [thread EXCEPT ![t].pc = "ReadKey_call2"]
    /\ UNCHANGED <<charSigned, clientVars, order, copyRun>>

(* lines 76-81 in thread t *)
Thread_AfterCall2(t) ==
    /\ thread[t].pc = "ReadKey_after2"
    /\ frames' = IF Failed(thread[t].result) THEN frames
                 ELSE [frames EXCEPT
                         ![ValOf(t)] = ReadKeyValAfter2(@, frames[OutputOf(t)])]
    /\ thread' = [thread EXCEPT
           ![t].ret = SMCReadKeyReturn(thread[t].result),
           ![t].pc = "returned"]
    /\ UNCHANGED <<charSigned, clientVars, order, copyRun>>

(* lines 129-140 in thread t *)
Thread_AfterKeyFromIndex(t) ==
    /\ thread[t].pc = "KeyFromIndex_after"
    /\ thread' = [thread EXCEPT
           ![t].outputKey = KeyFromIndexOutput(thread[t].result, @,
                                               frames[OutputOf(t)]),
           ![t].ret = [type |-> "kern_return_t", v |-> thread[t].result],
           ![t].pc = "returned"]
    /\ UNCHANGED <<charSigned, clientVars, frames, order, copyRun>>

(* the threads hold distinct handles; their records hold anything *)
InitThreads ==
    /\ charSigned \in BOOLEAN
    /\ ClientIdle
    /\ CopiesParked
    /\ \A t, u \in Threads : t # u => ThreadHandle[t] # ThreadHandle[u]
    /\ thread = [t \in Threads |-> IdleThread(ThreadHandle[t])]
    /\ \E u \in Uninitialized : frames = [l \in FrameLocs |-> u]
    /\ order = <<>>

NextThreads ==
    \/ \E t \in Threads : Thread_BeginReadKey(t)
    \/ \E t \in Threads : Thread_BeginKeyFromIndex(t)
    \/ \E t \in Threads : Thread_SMCCall(t)
    \/ \E t \in Threads : Thread_AfterCall1(t)
    \/ \E t \in Threads : Thread_AfterCall2(t)
    \/ \E t \in Threads : Thread_AfterKeyFromIndex(t)

SpecThreads == InitThreads /\ [][NextThreads]_vars

----------------------------------------------------------------------------
(* The copy at the root of src: src/smc.c, lines 6-98, statement by        *)
(* statement.  Both copies include smc.h.                                  *)
Root_Memset0(s) ==
    [key |-> ZeroWord, vers |-> ZeroVers, pLimitData |-> ZeroPLimitData,
     keyInfo |-> ZeroKeyInfo, result |-> 0, status |-> 0, data8 |-> 0,
     data32 |-> ZeroWord, bytes |-> ZeroBytes]

Root_PackKey(k, signed) ==
    WordOr(WordOr(WordOr(ShiftLeftBytes(PromoteChar(k[1], signed), 3),
                         ShiftLeftBytes(PromoteChar(k[2], signed), 2)),
                  ShiftLeftBytes(PromoteChar(k[3], signed), 1)),
           PromoteChar(k[4], signed))

Root_ReadKeyRequest1(u, k, signed) ==
    [Root_Memset0(u) EXCEPT !.key = Root_PackKey(k, signed),
                            !.data8 = SMC_CMD_READ_KEYINFO]

Root_Failed(result) == result # kIOReturnSuccess

Root_ReadKeyValAfter1(v, out) ==
    [v EXCEPT !.keyInfo.dataSize = out.keyInfo.dataSize,
              !.keyInfo.dataType = out.keyInfo.dataType]

Root_ReadKeyRequest2(in, v) ==
    [in EXCEPT !.keyInfo.dataSize = v.keyInfo.dataSize,
               !.data8 = SMC_CMD_READ_BYTES]

(* a root copy that copies only the first four payload bytes *)
Root_ReadKeyValAfter2_Sized(v, out) ==
    [v EXCEPT !.bytes = [i \in 1..BytesLen |->
                            IF i <= 4 THEN out.bytes[i] ELSE v.bytes[i]]]

Root_ReadKeyValAfter2(v, out) == [v EXCEPT !.bytes = out.bytes]

Root_SMCReadKeyReturn(r) == [type |-> "kern_return_t", v |-> r]

Root_SMCGetFloatValueReturn(r, v) ==
    IF r # kIOReturnSuccess
    THEN [type |-> "double", v |-> DoubleZero]
    ELSE IF v.keyInfo.dataType = WordOfNat(1718383648)
         THEN [type |-> "double",
               v |-> FloatToDouble(<<v.bytes[4], v.bytes[3], v.bytes[2],
                                     v.bytes[1]>>)]
         ELSE [type |-> "double", v |-> DoubleZero]

Root_AfterServiceOpen(dev) == <<IOKitCall("IOObjectRelease", dev, 0, 0)>>

Root_SMCOpenReturn(result, c) == IF result # kIOReturnSuccess THEN 0 ELSE c

(* the statements of copy c *)
CopyRequest1(c, u, k, signed) ==
    IF c = RootCopy THEN Root_ReadKeyRequest1(u, k, signed)
    ELSE ReadKeyRequest1(u, k, signed)

CopyMemset0(c, s) == IF c = RootCopy THEN Root_Memset0(s) ELSE Memset0(s)

CopyFailed(c, result) ==
    IF c = RootCopy THEN Root_Failed(result) ELSE Failed(result)

CopyValAfter1(c, v, out) ==
    IF c = RootCopy THEN Root_ReadKeyValAfter1(v, out)
    ELSE ReadKeyValAfter1(v, out)

CopyRequest2(c, in, v) ==
    IF c = RootCopy THEN Root_ReadKeyRequest2(in, v)
    ELSE ReadKeyRequest2(in, v)

CopyValAfter2(c, v, out) ==
    IF c = RootCopy THEN Root_ReadKeyValAfter2(v, out)
    ELSE ReadKeyValAfter2(v, out)

CopyReturn(c, o, r, v) ==
    IF c = RootCopy
    THEN IF o = "SMCReadKey" THEN Root_SMCReadKeyReturn(r)
         ELSE Root_SMCGetFloatValueReturn(r, v)
    ELSE ReturnAfterReadKey(o, r, v)

CopyAfterServiceOpen(c, dev) ==
    IF c = RootCopy THEN Root_AfterServiceOpen(dev) ELSE AfterServiceOpen(dev)

CopyOpenReturn(c, result, cn) ==
    IF c = RootCopy THEN Root_SMCOpenReturn(result, cn)
    ELSE SMCOpenReturn(result, cn)

(* One step of a call in copy c, from the run r of that copy.  A copy that *)
(* is not at the step stays where it is.                                   *)
RunBeginRead(c, o, k, signed, uin, uout, v) ==
    [IdleRun EXCEPT !.pc = "ReadKey_call1", !.op = o, !.key = k,
                    !.inputStructure = CopyRequest1(c, uin, k, signed),
                    !.outputStructure = CopyMemset0(c, uout),
                    !.val = CopyMemset0(c, v)]

RunCall1(c, r, st, resp, written) ==
    IF r.pc # "ReadKey_call1" THEN r
    ELSE LET out == KernelOutput(st, resp, written, r.outputStructure)
             cs == Append(r.calls, SMCCall(KERNEL_INDEX_SMC, r.inputStructure,
                                           st, out))
         IN  IF CopyFailed(c, st)
             THEN [r EXCEPT !.outputStructure = out, !.calls = cs,
                            !.ret = CopyReturn(c, r.op, st, r.val),
                            !.pc = "returned"]
             ELSE LET v == CopyValAfter1(c, r.val, out)
                  IN  [r EXCEPT !.outputStructure = out, !.calls = cs,
                                !.val = v,
                                !.inputStructure =
                                    CopyRequest2(c, r.inputStructure, v),
                                !.pc = "ReadKey_call2"]

RunCall2(c, r, st, resp, written) ==
    IF r.pc # "ReadKey_call2" THEN r
    ELSE LET out == KernelOutput(st, resp, written, r.outputStructure)
             cs == Append(r.calls, SMCCall(KERNEL_INDEX_SMC, r.inputStructure,
                                           st, out))
             v == IF CopyFailed(c, st) THEN r.val
                  ELSE CopyValAfter2(c, r.val, out)
         IN  [r EXCEPT !.outputStructure = out, !.calls = cs, !.val = v,
                       !.ret = CopyReturn(c, r.op, st, v),
                       !.pc = "returned"]

RunBeginOpen(c, uit, udev) ==
    [IdleRun EXCEPT !.pc = "Open_lookup", !.op = "SMCOpen",
                    !.iterator = uit, !.device = udev, !.conn = 0]

RunLookup(c, r, st, it, written) ==
    IF r.pc # "Open_lookup" THEN r
    ELSE LET log == Append(r.osLog,
                           IOKitCall("IOServiceGetMatchingServices", 0, st,
                                     IF st = kIOReturnSuccess THEN it ELSE 0))
             i == IF st = kIOReturnSuccess THEN it
                  ELSE IF written THEN 0 ELSE r.iterator
         IN  IF CopyFailed(c, st)
             THEN [r EXCEPT !.iterator = i, !.osLog = log,
                            !.ret = [type |-> "io_connect_t", v |-> 0],
                            !.pc = "returned"]
             ELSE [r EXCEPT !.iterator = i, !.osLog = log, !.pc = "Open_next"]

RunNext(c, r, dev) ==
    IF r.pc # "Open_next" THEN r
    ELSE LET log == r.osLog
                    \o <<IOKitCall("IOIteratorNext", r.iterator, 0, dev),
                         IOKitCall("IOObjectRelease", r.iterator, 0, 0)>>
         IN  IF dev = 0
             THEN [r EXCEPT !.device = dev, !.osLog = log,
                            !.ret = [type |-> "io_connect_t", v |-> 0],
                            !.pc = "returned"]
             ELSE [r EXCEPT !.device = dev, !.osLog = log,
                            !.pc = "Open_connect"]

RunConnect(c, r, st, cn, written) ==
    IF r.pc # "Open_connect" THEN r
    ELSE LET cv == IF written THEN cn ELSE r.conn
             log == r.osLog
                    \o <<IOKitCall("IOServiceOpen", r.device, st,
                                   IF st = kIOReturnSuccess THEN cn ELSE 0)>>
                    \o CopyAfterServiceOpen(c, r.device)
         IN  [r EXCEPT !.conn = cv, !.osLog = log,
                       !.ret = [type |-> "io_connect_t",
                                v |-> CopyOpenReturn(c, st, cv)],
                       !.pc = "returned"]

RunBeginClose(c, cn) ==
    [IdleRun EXCEPT !.pc = "Close_call", !.op = "SMCClose", !.conn = cn]

RunClose(c, r, st) ==
    IF r.pc # "Close_call" THEN r
    ELSE [r EXCEPT !.osLog = Append(r.osLog,
                                    IOKitCall("IOServiceClose", r.conn, st, 0)),
                   !.ret = [type |-> "kern_return_t", v |-> st],
                   !.pc = "returned"]

(* The two copies are given the same call and, step by step, the same      *)
(* answers of the controller and of IOKit.                                 *)
SomeAt(p) == \E c \in Copies : copyRun[c].pc = p

AllAt(p) == \A c \in Copies : copyRun[c].pc = p

Copies_BeginRead ==
    /\ AllAt("idle")
    /\ \E o \in {"SMCReadKey", "SMCGetFloatValue"}, k \in Keys,
          uin \in Uninitialized, uout \in Uninitialized, v \in Uninitialized :
         copyRun' = [c \in Copies |->
                        RunBeginRead(c, o, k, charSigned, uin, uout, v)]
    /\ UNCHANGED <<charSigned, clientVars, threadVars>>

Copies_Call1 ==
    /\ SomeAt("ReadKey_call1")
    /\ \E st \in Statuses, resp \in Responses, written \in BOOLEAN :
         /\ st = kIOReturnSuccess => written
         /\ copyRun' = [c \in Copies |->
                           RunCall1(c, copyRun[c], st, resp, written)]
    /\ UNCHANGED <<charSigned, clientVars, threadVars>>

Copies_Call2 ==
    /\ SomeAt("ReadKey_call2")
    /\ \E st \in Statuses, resp \in Responses, written \in BOOLEAN :
         /\ st = kIOReturnSuccess => written
         /\ copyRun' = [c \in Copies |->
                           RunCall2(c, copyRun[c], st, resp, written)]
    /\ UNCHANGED <<charSigned, clientVars, threadVars>>

Copies_BeginOpen ==
    /\ AllAt("idle")
    /\ \E uit \in UninitializedNames, udev \in UninitializedNames :
         copyRun' = [c \in Copies |-> RunBeginOpen(c, uit, udev)]
    /\ UNCHANGED <<charSigned, clientVars, threadVars>>

Copies_Lookup ==
    /\ SomeAt("Open_lookup")
    /\ \E st \in Statuses, it \in Iterators, written \in BOOLEAN :
         /\ st = kIOReturnSuccess => written
         /\ copyRun' = [c \in Copies |->
                           RunLookup(c, copyRun[c], st, it, written)]
    /\ UNCHANGED <<charSigned, clientVars, threadVars>>

Copies_Next ==
    /\ SomeAt("Open_next")
    /\ \E dev \in {0} \cup Devices :
         copyRun' = [c \in Copies |-> RunNext(c, copyRun[c], dev)]
    /\ UNCHANGED <<charSigned, clientVars, threadVars>>

Copies_Connect ==
    /\ SomeAt("Open_connect")
    /\ \E st \in Statuses, cn \in Connections, written \in BOOLEAN :
         /\ st = kIOReturnSuccess => written
         /\ copyRun' = [c \in Copies |->
                           RunConnect(c, copyRun[c], st, cn, written)]
    /\ UNCHANGED <<charSigned, clientVars, threadVars>>

Copies_BeginClose ==
    /\ AllAt("idle")
    /\ \E cn \in {0} \cup Connections :
         copyRun' = [c \in Copies |-> RunBeginClose(c, cn)]
    /\ UNCHANGED <<charSigned, clientVars, threadVars>>

Copies_Close ==
    /\ SomeAt("Close_call")
    /\ \E st \in Statuses :
         copyRun' = [c \in Copies |-> RunClose(c, copyRun[c], st)]
    /\ UNCHANGED <<charSigned, clientVars, threadVars>>

Copies_Return ==
    /\ AllAt("returned")
    /\ copyRun' = [c \in Copies |-> IdleRun]
    /\ UNCHANGED <<charSigned, clientVars, threadVars>>

InitCopies ==
    /\ charSigned \in BOOLEAN
    /\ ClientIdle
    /\ ThreadsParked
    /\ CopiesParked

NextCopies ==
    \/ Copies_BeginRead
    \/ Copies_Call1
    \/ Copies_Call2
    \/ Copies_BeginOpen
    \/ Copies_Lookup
    \/ Copies_Next
    \/ Copies_Connect
    \/ Copies_BeginClose
    \/ Copies_Close
    \/ Copies_Return

SpecCopies == InitCopies /\ [][NextCopies]_vars

----------------------------------------------------------------------------
(* Properties *)

Returned == pc = "returned"

(* the API functions that run SMCReadKey *)
IsRead == op \in {"SMCReadKey", "SMCGetFloatValue", "SMCGetKeyCount"}

LastStatus == calls[Len(calls)].status

AnyFailed == \E i \in 1..Len(calls) : calls[i].status # kIOReturnSuccess

(* C1: one SMCReadKey issues exactly two exchanges when the first reports  *)
(* success (so when both do) and exactly one when the first reports        *)
(* failure; a second exchange is only ever issued after a successful       *)
(* first, and it is another request than the first (no retry).             *)
C1_ExchangeCount ==
    IsRead =>
        /\ Len(calls) <= 2
        /\ Len(calls) = 2 =>
              /\ calls[1].status = kIOReturnSuccess
              /\ calls[2].input # calls[1].input
        /\ pc = "ReadKey_call2" => Len(calls) = 1
        /\ Returned =>
              IF calls[1].status = kIOReturnSuccess
              THEN Len(calls) = 2
              ELSE Len(calls) = 1

C1_Witness ==
    /\ Returned
    /\ op = "SMCReadKey"
    /\ Len(calls) = 1
    /\ calls[1].status # kIOReturnSuccess

(* C2: SMCReadKey returns the status of the exchange that failed, as it    *)
(* is, and the success status when both exchanges succeeded.               *)
C2_StatusVerbatim ==
    (Returned /\ op = "SMCReadKey") =>
        /\ ret.type = "kern_return_t"
        /\ \A i \in 1..Len(calls) :
              calls[i].status # kIOReturnSuccess => ret.v = calls[i].status
        /\ ~AnyFailed => ret.v = kIOReturnSuccess

C2_Witness ==
    /\ Returned
    /\ op = "SMCReadKey"
    /\ Len(calls) = 2
    /\ calls[2].status = -536870206
    /\ ret.v = -536870206

(* C3: a failed SMCReadKey hands back a record with no field filled from a *)
(* response and nothing of what the record held before: every field zero.  *)
C3_NoPartialValue ==
    (Returned /\ IsRead /\ AnyFailed) => val = ZeroFrame

(* C4 as stated: after a successful SMCReadKey for key K the record holds  *)
(* K, the dataSize and dataType of response #1 and the payload of          *)
(* response #2.                                                            *)
C4_ValueHoldsKey ==
    (Returned /\ IsRead /\ ~AnyFailed) =>
        /\ \/ val.key = PackKey(key, charSigned)
           \/ UnpackKey(val.key) = <<key[1], key[2], key[3], key[4], 0>>
        /\ val.keyInfo.dataSize = calls[1].output.keyInfo.dataSize
        /\ val.keyInfo.dataType = calls[1].output.keyInfo.dataType
        /\ val.bytes = calls[2].output.bytes

(* C4, amended: after a successful SMCReadKey the record holds the         *)
(* dataSize and dataType of response #1 and the whole 32-byte payload of   *)
(* response #2; the requested key is not stored, the key field is zero.    *)
C4_ValueAfterSuccess ==
    (Returned /\ IsRead /\ ~AnyFailed) =>
        /\ val.key = ZeroWord
        /\ val.keyInfo.dataSize = calls[1].output.keyInfo.dataSize
        /\ val.keyInfo.dataType = calls[1].output.keyInfo.dataType
        /\ val.bytes = calls[2].output.bytes

C4_Witness ==
    /\ Returned
    /\ op = "SMCReadKey"
    /\ ~AnyFailed
    /\ key = <<84, 67, 48, 80>>
    /\ calls[1].output.keyInfo # calls[2].output.keyInfo
    /\ calls[1].output.bytes # calls[2].output.bytes
    /\ val.keyInfo.dataSize = WordOfNat(4)
    /\ val.bytes[BytesLen] # 0

(* C5: for every 4-byte key K, the 32-bit key field packed for a request   *)
(* unpacks (as SMCGetKeyFromIndex unpacks) to K again.                     *)
C5_PackUnpackIdentity ==
    (IsRead \/ op = "SMCGetKeyInfo") =>
        \A i \in 1..Len(calls) :
            UnpackKey(calls[i].input.key)
                = <<key[1], key[2], key[3], key[4], 0>>

----------------------------------------------------------------------------
(* What IEEE-754 patterns denote: a class, a sign and, for a finite        *)
(* non-zero number, the pair <<m, e>> with m odd, the number m * 2^e.      *)
RECURSIVE OddForm(_, _)
OddForm(m, e) == IF m % 2 = 0 THEN OddForm(m \div 2, e + 1) ELSE <<m, e>>

Denotation(c, s, n) == [class |-> c, sign |-> s, num |-> n]

(* the single-precision number stored in the four bytes b, lowest first *)
FloatDenotes(b) ==
    LET s == b[4] \div 128
        e == (b[4] % 128) * 2 + b[3] \div 128
        m == (b[3] % 128) * 65536 + b[2] * 256 + b[1]
    IN  IF e = 255
        THEN IF m = 0 THEN Denotation("inf", s, <<0, 0>>)
                      ELSE Denotation("nan", 0, <<0, 0>>)
        ELSE IF e = 0
        THEN IF m = 0 THEN Denotation("zero", s, <<0, 0>>)
                      ELSE Denotation("num", s, OddForm(m, -149))
        ELSE Denotation("num", s, OddForm(8388608 + m, e - 150))

(* the double-precision number d; a double with bits in the low 29         *)
(* fraction bits, or subnormal, is no single-precision number              *)
DoubleDenotes(d) ==
    IF d.exp = 2047
    THEN IF d.hi = 0 /\ d.lo = 0 THEN Denotation("inf", d.sign, <<0, 0>>)
                                 ELSE Denotation("nan", 0, <<0, 0>>)
    ELSE IF d.exp = 0
    THEN IF d.hi = 0 /\ d.lo = 0 THEN Denotation("zero", d.sign, <<0, 0>>)
                                 ELSE Denotation("double-only", d.sign, <<0, 0>>)
    ELSE IF d.lo = 0
    THEN Denotation("num", d.sign, OddForm(8388608 + d.hi, d.exp - 1046))
    ELSE Denotation("double-only", d.sign, <<0, 0>>)

(* the dataType that the metadata exchange reported *)
ReportedType == calls[1].output.keyInfo.dataType
ReportedSize == calls[1].output.keyInfo.dataSize

(* C6: the lenient functions turn every failure into the neutral default:  *)
(* SMCGetFloatValue returns 0.0 when the read failed at either exchange or *)
(* the reported dataType is not the float tag, SMCGetKeyCount returns 0    *)
(* when the read failed; what they return is a number, never an error.     *)
C6_LenientDefaults ==
    /\ (Returned /\ op = "SMCGetFloatValue") =>
          /\ ret.type = "double"
          /\ (AnyFailed \/ ReportedType # FloatTagWord) => ret.v = DoubleZero
    /\ (Returned /\ op = "SMCGetKeyCount") =>
          /\ ret.type = "int"
          /\ AnyFailed => ret.v = <<0, 0>>

C6_Witness ==
    /\ Returned
    /\ op = "SMCGetFloatValue"
    /\ Len(calls) = 2
    /\ ReportedType = FloatTagWord
    /\ calls[2].status # kIOReturnSuccess
    /\ calls[2].output.bytes[3] = 40
    /\ ret.v = DoubleZero

(* C7: when the read succeeded and the metadata exchange reported the      *)
(* float tag with dataSize >= 4, SMCGetFloatValue's float has exactly the  *)
(* first four payload bytes of response #2 as its stored bytes, and the    *)
(* double returned is the number (infinity, NaN) those four bytes denote.  *)
C7_FloatDecodeExact ==
    (/\ Returned
     /\ op = "SMCGetFloatValue"
     /\ ~AnyFailed
     /\ ReportedType = FloatTagWord
     /\ (UnsignedValue(ReportedSize)[1] > 0
         \/ UnsignedValue(ReportedSize)[2] >= 4)) =>
        LET b == SubSeq(calls[2].output.bytes, 1, 4)
        IN  /\ f # NoFloat
            /\ <<f[4], f[3], f[2], f[1]>> = b
            /\ ret.type = "double"
            /\ DoubleDenotes(ret.v) = FloatDenotes(b)

(* the payload 00 00 28 42 decoded to 42.0 *)
C7_Witness ==
    /\ Returned
    /\ op = "SMCGetFloatValue"
    /\ ~AnyFailed
    /\ ReportedType = FloatTagWord
    /\ ReportedSize = WordOfNat(4)
    /\ calls[2].output.keyInfo.dataType # FloatTagWord
    /\ calls[2].output.bytes[5] # 0
    /\ SubSeq(calls[2].output.bytes, 1, 4) = <<0, 0, 40, 66>>
    /\ DoubleDenotes(ret.v) = Denotation("num", 0, <<21, 1>>)

(* C8: when the read of "#KEY" succeeded, SMCGetKeyCount returns the       *)
(* number b0 * 2^24 + b1 * 2^16 + b2 * 2^8 + b3 of the payload's first     *)
(* four bytes, whatever they are.                                          *)
C8_KeyCountBigEndian ==
    (Returned /\ op = "SMCGetKeyCount" /\ ~AnyFailed) =>
        LET b == calls[2].output.bytes
        IN  /\ ret.type = "int"
            /\ ret.v = <<b[1] * 256 + b[2], b[3] * 256 + b[4]>>

(* C9: SMCGetKeyFromIndex issues one exchange, with command selector 8     *)
(* and data32 holding the index (as a 32-bit word: the index modulo 2^32), *)
(* and on success returns the characters of the response's key field, most *)
(* significant byte first, followed by a terminator.                       *)
C9_KeyAtIndex ==
    op = "SMCGetKeyFromIndex" =>
        /\ Len(calls) <= 1
        /\ \A i \in 1..Len(calls) :
              /\ calls[i].input.data8 = 8
              /\ UnsignedValue(calls[i].input.data32)
                    = <<(index \div 65536) % 65536, index % 65536>>
        /\ Returned =>
              /\ Len(calls) = 1
              /\ ret = [type |-> "kern_return_t", v |-> calls[1].status]
              /\ calls[1].status = kIOReturnSuccess =>
                    LET k == calls[1].output.key
                    IN  outputKey = <<k[1], k[2], k[3], k[4], 0>>

(* index 0 answered with the key field 0x234B4559 gives "#KEY" *)
C9_Witness ==
    /\ Returned
    /\ op = "SMCGetKeyFromIndex"
    /\ index = 0
    /\ calls[1].status = kIOReturnSuccess
    /\ calls[1].input.data32 = ZeroWord
    /\ calls[1].output.key = <<35, 75, 69, 89>>
    /\ outputKey = <<35, 75, 69, 89, 0>>

----------------------------------------------------------------------------
(* SMCOpen: what the IOKit calls of the open in progress reported *)
IsOpen == op = "SMCOpen"

LookupSucceeded ==
    \E i \in 1..Len(osLog) :
        /\ osLog[i].fn = "IOServiceGetMatchingServices"
        /\ osLog[i].result = kIOReturnSuccess

DeviceFound ==
    \E i \in 1..Len(osLog) :
        osLog[i].fn = "IOIteratorNext" /\ osLog[i].object # 0

ConnectSucceeded ==
    \E i \in 1..Len(osLog) :
        osLog[i].fn = "IOServiceOpen" /\ osLog[i].result = kIOReturnSuccess

(* C11: SMCOpen returns 0 when the lookup reports non-success, when the    *)
(* lookup yields no device and when IOServiceOpen reports non-success; it  *)
(* returns the connection IOServiceOpen produced when, and only when, all  *)
(* three steps succeeded.                                                  *)
C11_OpenReturn ==
    (Returned /\ IsOpen) =>
        /\ ret.type = "io_connect_t"
        /\ IF LookupSucceeded /\ DeviceFound /\ ConnectSucceeded
           THEN \E i \in 1..Len(osLog) :
                    /\ osLog[i].fn = "IOServiceOpen"
                    /\ osLog[i].object \in Connections
                    /\ ret.v = osLog[i].object
           ELSE ret.v = 0

(* IOServiceOpen failed and left a name in conn; SMCOpen returned 0 *)
C11_Witness ==
    /\ Returned /\ IsOpen
    /\ LookupSucceeded /\ DeviceFound /\ ~ConnectSucceeded
    /\ conn \in Connections
    /\ ret.v = 0

(* the objects the open in progress acquired before its i-th IOKit call *)
AcquiredBefore(i) ==
    {osLog[j].object : j \in {k \in 1..(i - 1) :
        /\ osLog[k].fn \in {"IOServiceGetMatchingServices", "IOIteratorNext"}
        /\ osLog[k].object # 0}}

ReleasesOf(h) ==
    Cardinality({i \in 1..Len(osLog) :
                    osLog[i].fn = "IOObjectRelease" /\ osLog[i].arg = h})

(* C15: on every path through SMCOpen the iterator of a successful lookup  *)
(* and the device IOIteratorNext returned are each released exactly once   *)
(* before SMCOpen returns, whether or not IOServiceOpen succeeds; nothing  *)
(* is released that was not acquired; the connection is left held.         *)
C15_ReleasedOnce ==
    IsOpen =>
        /\ \A i \in 1..Len(osLog) :
               osLog[i].fn = "IOObjectRelease" =>
                   osLog[i].arg \in AcquiredBefore(i)
        /\ \A h \in AcquiredBefore(Len(osLog) + 1) : ReleasesOf(h) <= 1
        /\ Returned =>
               /\ \A h \in AcquiredBefore(Len(osLog) + 1) : ReleasesOf(h) = 1
               /\ \A i \in 1..Len(osLog) :
                      osLog[i].fn \in {"IOObjectRelease", "IOServiceClose"} =>
                          osLog[i].arg \notin Connections

(* IOServiceOpen failed; iterator and device were each released once *)
C15_Witness ==
    /\ Returned /\ IsOpen
    /\ DeviceFound /\ ~ConnectSucceeded
    /\ ReleasesOf(iterator) = 1
    /\ ReleasesOf(device) = 1
    /\ device \in Devices

----------------------------------------------------------------------------
(* the packed form of every key a read is given *)
PackedKey ==
    [k \in Keys \cup {KeyCountKey}, s \in BOOLEAN |-> PackKey(k, s)]

(* request #1 of a read of key k, as a frame *)
KeyInfoQuery(k) ==
    [ZeroFrame EXCEPT !.key = k, !.data8 = SMC_CMD_READ_KEYINFO]

(* the record a read leaves, from the responses cs to its own exchanges *)
ValueFrom(cs) ==
    IF cs[1].status # kIOReturnSuccess THEN ZeroFrame
    ELSE IF cs[2].status # kIOReturnSuccess
    THEN [ZeroFrame EXCEPT
            !.keyInfo.dataSize = cs[1].output.keyInfo.dataSize,
            !.keyInfo.dataType = cs[1].output.keyInfo.dataType]
    ELSE [ZeroFrame EXCEPT
            !.keyInfo.dataSize = cs[1].output.keyInfo.dataSize,
            !.keyInfo.dataType = cs[1].output.keyInfo.dataType,
            !.bytes = cs[2].output.bytes]

ValueFromResponses == ValueFrom(calls)

(* C13: there is no cache.  Whatever reads returned before, and whatever   *)
(* they left in the record the caller passes, a read issues its own        *)
(* exchanges, starting with the key-info request for its key, and the      *)
(* status and the record it returns are determined by the responses to     *)
(* those exchanges.                                                        *)
C13_NoCache ==
    (Returned /\ IsRead) =>
        /\ Len(calls) >= 1
        /\ calls[1].input = KeyInfoQuery(PackedKey[key, charSigned])
        /\ val = ValueFromResponses
        /\ op = "SMCReadKey" =>
               ret = [type |-> "kern_return_t", v |-> LastStatus]

(* after a read that succeeded, a read failed in exchange #1 and returned  *)
(* an empty record                                                         *)
C13_Witness ==
    /\ Returned /\ op = "SMCReadKey"
    /\ earlier = "succeeded"
    /\ Len(calls) = 1
    /\ calls[1].status # kIOReturnSuccess
    /\ val = ZeroFrame
    /\ ret.v = calls[1].status

(* C14: within one read the metadata exchange comes first.  Request #1     *)
(* carries the packed key (the key's four bytes when they are 7-bit) with  *)
(* the selector SMC_CMD_READ_KEYINFO; request #2 carries the same packed   *)
(* key, the selector SMC_CMD_READ_BYTES and, as keyInfo.dataSize, the      *)
(* dataSize of response #1; no SMC_CMD_READ_BYTES request is issued or     *)
(* prepared before the response to the key-info request is there.          *)
C14_MetadataThenPayload ==
    IsRead =>
        /\ Len(calls) >= 1 =>
             /\ calls[1].input.key = PackedKey[key, charSigned]
             /\ (\A i \in 1..4 : key[i] < 128) => calls[1].input.key = key
             /\ calls[1].input.data8 = SMC_CMD_READ_KEYINFO
        /\ Len(calls) = 2 =>
             /\ calls[2].input.key = calls[1].input.key
             /\ calls[2].input.data8 = SMC_CMD_READ_BYTES
             /\ calls[2].input.keyInfo.dataSize
                    = calls[1].output.keyInfo.dataSize
        /\ \A i \in 1..Len(calls) :
               calls[i].input.data8 = SMC_CMD_READ_BYTES =>
                   i = 2 /\ calls[1].input.data8 = SMC_CMD_READ_KEYINFO
        /\ pc = "ReadKey_call1" =>
               Len(calls) = 0 /\ inputStructure.data8 = SMC_CMD_READ_KEYINFO
        /\ pc = "ReadKey_call2" =>
               Len(calls) = 1 /\ inputStructure.data8 = SMC_CMD_READ_BYTES

(* both exchanges of a read are done; response #1 reported the size 2 *)
C14_Witness ==
    /\ Returned /\ IsRead
    /\ Len(calls) = 2
    /\ key = <<84, 67, 48, 80>>
    /\ calls[1].output.keyInfo.dataSize = WordOfNat(2)
    /\ calls[2].input.keyInfo.dataSize = WordOfNat(2)
    /\ calls[2].input.data8 = 5

(* the fields of request r, the i-th of the call, that its command sets;   *)
(* all others zero                                                         *)
FieldsSet(r, i) ==
    IF op = "SMCGetKeyFromIndex"
    THEN [ZeroFrame EXCEPT !.data8 = r.data8, !.data32 = r.data32]
    ELSE IF IsRead /\ i = 2
    THEN [ZeroFrame EXCEPT !.key = r.key, !.data8 = r.data8,
                           !.keyInfo.dataSize = r.keyInfo.dataSize]
    ELSE [ZeroFrame EXCEPT !.key = r.key, !.data8 = r.data8]

(* C16: every request the client sends (both requests of a read, the       *)
(* request of SMCGetKeyFromIndex, the request of SMCGetKeyInfo) goes       *)
(* through the command index KERNEL_INDEX_SMC and is zero in every field   *)
(* its command does not set: nothing uninitialized, nothing of a response. *)
C16_RequestsZeroed ==
    \A i \in 1..Len(calls) :
        /\ calls[i].index = KERNEL_INDEX_SMC
        /\ calls[i].input = FieldsSet(calls[i].input, i)

(* request #2 of a read is zero where response #1 was not *)
C16_Witness ==
    /\ Returned /\ IsRead
    /\ Len(calls) = 2
    /\ calls[1].output.vers # ZeroVers
    /\ calls[1].output.keyInfo.dataAttributes # 0
    /\ calls[2].input.vers = ZeroVers
    /\ calls[2].input.keyInfo.dataAttributes = 0
    /\ calls[2].index = 2

(* a 32-bit size that is at most the length of SMCBytes_t *)
AtMostBytesLen(w) == w[1] = 0 /\ w[2] = 0 /\ w[3] = 0 /\ w[4] <= BytesLen

(* C17: the dataSize a read produces is at most 32: the one stored in the  *)
(* record SMCReadKey returns, the one sent back in request #2 and the one  *)
(* SMCGetKeyInfo returns, for every response to the metadata exchange.     *)
C17_DataSizeAtMost32 ==
    /\ (Returned /\ IsRead) => AtMostBytesLen(val.keyInfo.dataSize)
    /\ (IsRead /\ Len(calls) = 2) =>
           AtMostBytesLen(calls[2].input.keyInfo.dataSize)
    /\ (Returned /\ op = "SMCGetKeyInfo" /\ ~AnyFailed) =>
           AtMostBytesLen(keyInfo.dataSize)

(* C18: when the one exchange of SMCGetKeyFromIndex or of SMCGetKeyInfo    *)
(* reports non-success, the operation returns that status and the          *)
(* caller's output key buffer, or keyInfo record, keeps the contents it    *)
(* had before the call.                                                    *)
C18_OutputUntouched ==
    [][(/\ pc \in {"KeyFromIndex_call", "KeyInfo_call"}
        /\ pc' = "returned"
        /\ calls'[1].status # kIOReturnSuccess)
       => /\ ret' = [type |-> "kern_return_t", v |-> calls'[1].status]
          /\ outputKey' = outputKey
          /\ keyInfo' = keyInfo]_vars

(* SMCGetKeyFromIndex failed; the kernel wrote a key into the output       *)
(* structure, the caller's buffer is as it was                             *)
C18_Witness ==
    /\ Returned /\ op = "SMCGetKeyFromIndex"
    /\ calls[1].status # kIOReturnSuccess
    /\ calls[1].output.key = KeyCountKey
    /\ outputKey = <<88, 88, 88, 88, 88>>
    /\ ret.v = calls[1].status

----------------------------------------------------------------------------
(* what thread t would return had it run alone and been given the          *)
(* responses its own exchanges were given                                  *)
AloneStatus(t) == thread[t].calls[Len(thread[t].calls)].status

AloneValue(t) == ValueFrom(thread[t].calls)

AloneKey(t) ==
    IF Failed(thread[t].calls[1].status) THEN <<88, 88, 88, 88, 88>>
    ELSE UnpackKey(thread[t].calls[1].output.key)

(* C12: threads that use distinct handles share no state.  In every        *)
(* interleaving of the exchanges of two threads, each running SMCReadKey   *)
(* or SMCGetKeyFromIndex on its own handle, every exchange of a thread     *)
(* goes through that thread's handle with that thread's request, and the   *)
(* status and the record (or key) the thread returns are the ones it       *)
(* returns when it runs alone with the same responses.                     *)
C12_ThreadsIndependent ==
    \A t \in Threads :
        /\ \A i \in 1..Len(thread[t].calls) :
               /\ thread[t].handles[i] = ThreadHandle[t]
               /\ thread[t].op = "SMCReadKey" =>
                      thread[t].calls[i].input.key
                          = PackKey(thread[t].key, charSigned)
               /\ thread[t].op = "SMCGetKeyFromIndex" =>
                      thread[t].calls[i].input.data32
                          = IntToWord(thread[t].index)
        /\ thread[t].pc = "returned" =>
               /\ thread[t].ret
                      = [type |-> "kern_return_t", v |-> AloneStatus(t)]
               /\ thread[t].op = "SMCReadKey" =>
                      frames[ValOf(t)] = AloneValue(t)
               /\ thread[t].op = "SMCGetKeyFromIndex" =>
                      thread[t].outputKey = AloneKey(t)

(* two reads whose exchanges alternated returned two different records *)
C12_Witness ==
    /\ order = <<1, 2, 1, 2>>
    /\ \A t \in Threads :
           /\ thread[t].pc = "returned"
           /\ thread[t].op = "SMCReadKey"
           /\ thread[t].ret.v = kIOReturnSuccess
    /\ frames[ValOf(1)].keyInfo # frames[ValOf(2)].keyInfo
    /\ frames[ValOf(1)].bytes # frames[ValOf(2)].bytes

----------------------------------------------------------------------------
(* C19: the copy src/smc.c and the copy src/internal/app/smc.c are         *)
(* equivalent on SMCOpen, SMCClose, SMCReadKey and SMCGetFloatValue: given *)
(* the same call and the same sequence of answers they are at the same     *)
(* step, have issued the same exchanges with the same request fields and   *)
(* the same IOKit calls, and return the same status and result.            *)
C19_CopiesEquivalent ==
    LET a == copyRun[AppCopy]
        b == copyRun[RootCopy]
    IN  /\ a.pc = b.pc
        /\ a.calls = b.calls
        /\ a.osLog = b.osLog
        /\ a.inputStructure = b.inputStructure
        /\ a.val = b.val
        /\ a.ret.type = b.ret.type
        /\ a.ret.v = b.ret.v

(* both copies decoded 42.0 after two exchanges *)
C19_Witness ==
    \A c \in Copies :
        /\ copyRun[c].pc = "returned"
        /\ copyRun[c].op = "SMCGetFloatValue"
        /\ Len(copyRun[c].calls) = 2
        /\ copyRun[c].ret.type = "double"
        /\ copyRun[c].ret.v # DoubleZero
        /\ SubSeq(copyRun[c].val.bytes, 1, 4) = <<0, 0, 40, 66>>

============================================================================
